---------------------------- MODULE Spec2Model ----------------------------
(***************************************************************************)
(* A model of zellij-compact-bar: the tab fitting loop                     *)
(* (populate_tabs_in_tab_line), the row builder (tab_line) with its prefix *)
(* and status widgets, and the plugin's event handler (State::update).     *)
(*                                                                         *)
(* A LinePart is [part, len, tab_index].  The styled string `part` is      *)
(* modelled by what it shows: [text, n], the kind of text and the number   *)
(* printed in it.  Option<usize> is [some, v].                             *)
(*                                                                         *)
(* A Vec of tabs on one side of the active tab is kept as                  *)
(* [lo, n, near]: it holds the tabs with indices lo .. lo+n-1; `near`      *)
(* lists the widths of the tabs nearest the active tab, nearest first, and *)
(* every tab beyond those is FarWidth wide.  This lets a side hold 10000   *)
(* tabs, which the "+many" indicator needs.                                *)
(***************************************************************************)
EXTENDS Integers, Sequences, FiniteSets, TLC

(* ------------------------------ bounds -------------------------------- *)

\* Largest column budget handed to the fitting loop.
MaxBudget == 26

\* Number of tabs on one side whose widths are chosen one by one.
MaxNear == 1

\* Widths of the near tabs and of the active tab.
TabWidths == {3, 4}

\* Width of every tab beyond the near ones: the largest of TabWidths.
FarWidth == CHOOSE w \in TabWidths : \A v \in TabWidths : v <= w

\* How many tabs lie beyond the near ones on a side.
FarCounts == {0, 1, 9, 9999}

(* ------------------------- integers of the code ----------------------- *)

\* usize::MAX.  Every width and count of the model is far below it, so the
\* largest integer of the checker stands for 2^64 - 1.
UsizeMax == 2147483647

saturating_add(a, b) == IF a >= UsizeMax - b THEN UsizeMax ELSE a + b

saturating_sub(a, b) == IF a >= b THEN a - b ELSE 0

\* Width of format!("{}", n) for a usize n.
RECURSIVE DecimalWidth(_)
DecimalWidth(n) == IF n < 10 THEN 1 ELSE 1 + DecimalWidth(n \div 10)

(* ------------------------------ LinePart ------------------------------ *)

None == [some |-> FALSE, v |-> 0]

Some(i) == [some |-> TRUE, v |-> i]

Text(t, k) == [text |-> t, n |-> k]

LinePart(p, l, ti) == [part |-> p, len |-> l, tab_index |-> ti]

\* LinePart::default()
LinePartDefault == LinePart(Text("", 0), 0, None)

\* The segment of the tab at position i, w columns wide.
TabPart(w, i) == LinePart(Text("tab", i), w, Some(i))

RECURSIVE SumLen(_)
SumLen(parts) == IF parts = <<>> THEN 0 ELSE Head(parts).len + SumLen(Tail(parts))

get_current_title_len(current_title) == SumLen(current_title)

(* ---------------------------- Vec of tabs ----------------------------- *)

VecLen(v) == v.n

NearestWidth(v) == IF v.near # <<>> THEN Head(v.near) ELSE FarWidth

\* tabs_before_active.last() and tabs_after_active.first()
VecLast(v) == TabPart(NearestWidth(v), v.lo + v.n - 1)

VecFirst(v) == TabPart(NearestWidth(v), v.lo)

DropNear(near) == IF near = <<>> THEN near ELSE Tail(near)

\* tabs_before_active.pop() and tabs_after_active.remove(0): what is left.
VecPop(v) == [v EXCEPT !.n = @ - 1, !.near = DropNear(@)]

VecRemoveFirst(v) == [v EXCEPT !.lo = @ + 1, !.n = @ - 1, !.near = DropNear(@)]


(* ------------------------- collapse indicators ------------------------ *)

\* The count from which an indicator prints "many" instead of the number.
ManyFrom == 10000

\* Width of the text around the number: " <- +" and " ", or " +" and " -> ".
MoreTextFrame == 5

\* Width of "many".
ManyWidth == 4

\* MoreText with the comparison of line 121 written <= : 10000 is printed.
MoreText_ManyTooLate(kind, count) ==
    IF count <= ManyFrom THEN Text(kind, count) ELSE Text(kind \o "_many", 0)

\* more_text of left_more_message / right_more_message: what it shows and
\* how wide it is.
MoreText(kind, count) ==
    IF count < ManyFrom THEN Text(kind, count) ELSE Text(kind \o "_many", 0)

MoreTextWidth(count) ==
    MoreTextFrame + (IF count < ManyFrom THEN DecimalWidth(count) ELSE ManyWidth)

left_more_message(tab_count_to_the_left, separator, tab_index) ==
    IF tab_count_to_the_left = 0
    THEN LinePartDefault
    ELSE LinePart(MoreText("left_more", tab_count_to_the_left),
                  MoreTextWidth(tab_count_to_the_left) + 2 * separator,
                  Some(tab_index))

right_more_message(tab_count_to_the_right, separator, tab_index) ==
    IF tab_count_to_the_right = 0
    THEN LinePartDefault
    ELSE LinePart(MoreText("right_more", tab_count_to_the_right),
                  MoreTextWidth(tab_count_to_the_right) + 2 * separator,
                  Some(tab_index))

(* --------------------- populate_tabs_in_tab_line ---------------------- *)

\* The state of the loop: the three vectors and the three counters.
\* `at` is where the call stands: "loop" (line 30), "break" (left at line 55)
\* or "end" (left at line 107).
LoopState(before, after, render, middle, tl, tr, where) ==
    [tabs_before_active |-> before, tabs_after_active |-> after,
     tabs_to_render |-> render, middle_size |-> middle,
     total_left |-> tl, total_right |-> tr, at |-> where]

\* The state before the first iteration.
LoopEntry(before, after, render) ==
    LoopState(before, after, render, get_current_title_len(render), 0, 0, "loop")

\* left_more_tab_index without the step to the tab left of the window.
left_more_tab_index_NoStep(left_count) == left_count

left_more_tab_index(left_count) == saturating_sub(left_count, 1)

right_more_tab_index(left_count, rendered) == left_count + rendered

collapsed_left(s, separator) ==
    left_more_message(VecLen(s.tabs_before_active), separator,
                      left_more_tab_index(VecLen(s.tabs_before_active)))

collapsed_right(s, separator) ==
    right_more_message(VecLen(s.tabs_after_active), separator,
                       right_more_tab_index(VecLen(s.tabs_before_active),
                                            Len(s.tabs_to_render)))

total_size(s, separator) ==
    collapsed_left(s, separator).len + s.middle_size + collapsed_right(s, separator).len

\* Width of the next tab of a side, usize::MAX when the side is empty.
NextLeft(s) ==
    IF VecLen(s.tabs_before_active) > 0 THEN VecLast(s.tabs_before_active).len ELSE UsizeMax

NextRight(s) ==
    IF VecLen(s.tabs_after_active) > 0 THEN VecFirst(s.tabs_after_active).len ELSE UsizeMax

\* size_by_adding with the indicator taken off whatever the side still holds.
size_by_adding_AlwaysShortened(tab_len, total, side_count, collapsed_len) ==
    saturating_sub(saturating_add(tab_len, total), collapsed_len)

\* The total is shortened when the tab to add is the last of its side.
size_by_adding(tab_len, total, side_count, collapsed_len) ==
    saturating_sub(saturating_add(tab_len, total),
                   IF side_count = 1 THEN collapsed_len ELSE 0)

size_by_adding_left(s, separator) ==
    size_by_adding(NextLeft(s), total_size(s, separator),
                   VecLen(s.tabs_before_active), collapsed_left(s, separator).len)

size_by_adding_right(s, separator) ==
    size_by_adding(NextRight(s), total_size(s, separator),
                   VecLen(s.tabs_after_active), collapsed_right(s, separator).len)

left_fits(s, cols, separator) == size_by_adding_left(s, separator) <= cols

right_fits(s, cols, separator) == size_by_adding_right(s, separator) <= cols

\* The guard at the top of the loop body: the indicators do not fit.
BreakNow(s, cols, separator) == total_size(s, separator) > cols

\* TakeLeft without the comparison of the two sides' widths.
TakeLeft_Whenever(s, cols, separator) == left_fits(s, cols, separator)

\* The side the loop adds to.
TakeLeft(s, cols, separator) ==
    /\ s.total_left <= s.total_right \/ ~right_fits(s, cols, separator)
    /\ left_fits(s, cols, separator)

AddLeftTab(s) ==
    LET tab == VecLast(s.tabs_before_active)
    IN  [s EXCEPT !.tabs_before_active = VecPop(@),
                  !.middle_size = @ + tab.len,
                  !.total_left = @ + tab.len,
                  !.tabs_to_render = <<tab>> \o @]

AddRightTab(s) ==
    LET tab == VecFirst(s.tabs_after_active)
    IN  [s EXCEPT !.tabs_after_active = VecRemoveFirst(@),
                  !.middle_size = @ + tab.len,
                  !.total_right = @ + tab.len,
                  !.tabs_to_render = Append(@, tab)]

AddCollapsed(s, separator) ==
    [s EXCEPT !.tabs_to_render =
                  <<collapsed_left(s, separator)>> \o @ \o <<collapsed_right(s, separator)>>,
              !.at = "end"]

\* One turn of the loop.
LoopTurn(s, cols, separator) ==
    IF BreakNow(s, cols, separator) THEN [s EXCEPT !.at = "break"]
    ELSE IF TakeLeft(s, cols, separator) THEN AddLeftTab(s)
    ELSE IF right_fits(s, cols, separator) THEN AddRightTab(s)
    ELSE AddCollapsed(s, separator)

\* The whole call: the state in which the loop stops.
RECURSIVE populate_tabs_in_tab_line(_, _, _)
populate_tabs_in_tab_line(s, cols, separator) ==
    IF s.at # "loop" THEN s
    ELSE populate_tabs_in_tab_line(LoopTurn(s, cols, separator), cols, separator)


(* ------------------------------ separator ----------------------------- *)

\* Width of ARROW_SEPARATOR, one private-use glyph.
ArrowSeparatorWidth == 1

\* Width of tab_separator(capabilities).
tab_separator(arrow_fonts) == IF ~arrow_fonts THEN ArrowSeparatorWidth ELSE 0

(* ------------------------------- prefix ------------------------------- *)

\* Width of format!("{:?}", mode).to_uppercase().
ModeNameWidth(mode) ==
    CASE mode = "Normal" -> 6
      [] mode = "Locked" -> 6
      [] mode = "Tab" -> 3
      [] mode = "RenameTab" -> 9

\* A part is pushed when it fits in what the empty prefix text leaves of cols.
PrefixPartFits(cols, prefix_text_len, part_len) ==
    saturating_sub(cols, prefix_text_len) >= part_len

\* session_name is None or Some(width of the name).
tab_line_prefix(session_name, mode, cols) ==
    LET prefix_text_len == 0
        name_part_len == 2 + session_name.v
        mode_part_len == 2 + ModeNameWidth(mode)
    IN  <<LinePart(Text("prefix", 0), prefix_text_len, None)>>
        \o (IF session_name.some /\ PrefixPartFits(cols, prefix_text_len, name_part_len)
            THEN <<LinePart(Text("session", 0), name_part_len, None)>>
            ELSE <<>>)
        \o (IF PrefixPartFits(cols, prefix_text_len, mode_part_len)
            THEN <<LinePart(Text("mode", 0), mode_part_len, None)>>
            ELSE <<>>)

(* --------------------------- status widgets --------------------------- *)

\* Width of " %H:%M:%S %A " in ja_JP: " 07:15:02 ", a weekday of three
\* double-width characters, " ".
TimeTextWidth == 17

time_status(separator) == LinePart(Text("time", 0), separator + TimeTextWidth, None)

\* loads_width is the width of " {load1} {load5} {load15} ".
load_status(separator, loads_width) ==
    LinePart(Text("load", 0), separator + loads_width + separator, None)

\* swap_layout_name is None or Some(length of the name).
swap_layout_status(max_len, swap_layout_name, input_mode, separator) ==
    LET swap_layout_name_len == (swap_layout_name.v + 2) + separator * 2
        full_len == swap_layout_name_len
        short_len == swap_layout_name_len + 1
    IN  IF ~swap_layout_name.some THEN <<>>
        ELSE IF full_len <= max_len
             THEN <<LinePart(Text("swap_layout", 0), full_len, None)>>
        ELSE IF short_len <= max_len /\ input_mode # "Locked"
             THEN <<LinePart(Text("swap_layout", 0), short_len, None)>>
        ELSE <<>>

\* A widget is admitted when its width fits in the remaining space.
WidgetFits(remaining_space, widget_len) == remaining_space >= widget_len

Padding(remaining_space) == LinePart(Text("padding", 0), remaining_space, None)

\* What tab_line hands back: the parts, or a panic (no value).
Returned(parts) == [parts |-> parts, panic |-> FALSE]

Panicked == [parts |-> <<>>, panic |-> TRUE]

\* Lines 287-337 of tab_line: `title` is the prefix with tabs_to_render
\* appended.  cols - current_title_len is a usize subtraction: it panics
\* when current_title_len exceeds cols.
PackWidgets(title, cols, separator, loads_width, swap_layout_name, mode) ==
    LET current_title_len == get_current_title_len(title)
        remaining0 == cols - current_title_len
        time == time_status(separator)
        time_in == WidgetFits(remaining0, time.len)
        remaining1 == IF time_in THEN remaining0 - time.len ELSE remaining0
        load == load_status(separator, loads_width)
        load_in == WidgetFits(remaining1, load.len)
        remaining2 == IF load_in THEN remaining1 - load.len ELSE remaining1
        swap == IF remaining2 > 0
                THEN swap_layout_status(remaining2, swap_layout_name, mode, separator)
                ELSE <<>>
        remaining3 == remaining2 - SumLen(swap)
    IN  IF current_title_len > cols THEN Panicked
        ELSE Returned(title \o <<Padding(remaining3)>>
                      \o swap
                      \o (IF load_in THEN <<load>> ELSE <<>>)
                      \o (IF time_in THEN <<time>> ELSE <<>>))

\* ActiveWontFit with the prefix left out of the sum.
ActiveWontFit_NoPrefix(prefix_len, active_len, cols) == active_len > cols

\* Line 273: the active tab alone does not fit beside the prefix.
ActiveWontFit(prefix_len, active_len, cols) == prefix_len + active_len > cols

\* The prefix tab_line builds from its arguments (lines 266-269).
LinePrefixOf(a) ==
    tab_line_prefix(IF a.hide_session_name THEN None ELSE a.session_name, a.mode, a.cols)

\* The call tab_line makes of populate_tabs_in_tab_line (lines 277-286).
FitCallOf(a) ==
    [tabs |-> a.tabs,
     cols |-> saturating_sub(a.cols, get_current_title_len(LinePrefixOf(a))),
     separator |-> tab_separator(a.arrow_fonts)]

\* tab_line as a function of its arguments and of the load text it reads.
tab_line(a, loads_width) ==
    LET prefix == LinePrefixOf(a)
        call == FitCallOf(a)
        fitted == populate_tabs_in_tab_line(
                      LoopEntry(a.tabs.before, a.tabs.after, <<a.tabs.active>>),
                      call.cols, call.separator)
    IN  IF ActiveWontFit(get_current_title_len(prefix), a.tabs.active.len, a.cols)
        THEN Returned(prefix)
        ELSE PackWidgets(prefix \o fitted.tabs_to_render, a.cols, call.separator,
                         loads_width, a.active_swap_layout_name, a.mode)

(* ------------------------------- state -------------------------------- *)

VARIABLES
    entry,      \* what runs: "populate_tabs_in_tab_line", "tab_line" or "plugin"
    pc,         \* "tab_line" (line 259), "populate" (in or past the loop), "ret";
                \* for the plugin "new" (before load), "loaded" and "panicked"
    line_in,    \* the arguments of tab_line
    line_out,   \* what tab_line returned
    fit_in,     \* the arguments of populate_tabs_in_tab_line
    loop,       \* the state of its loop
    got_permissions,    \* State.got_permissions
    tabs,               \* State.tabs: one record [active] per TabInfo
    active_tab_idx,     \* State.active_tab_idx
    mode_info,          \* State.mode_info, by its mode
    timer_pending,      \* a timeout set with set_timeout has not fired yet
    last,               \* the last call of update: its event and what it asked of the host
    self_tab_line,      \* State.tab_line
    frame               \* the last call of render: what it found and what it printed

lineVars == <<line_in, line_out, fit_in, loop>>

renderVars == <<self_tab_line, frame>>

pluginVars == <<got_permissions, tabs, active_tab_idx, mode_info, timer_pending, last,
                self_tab_line, frame>>

vars == <<entry, pc, line_in, line_out, fit_in, loop,
          got_permissions, tabs, active_tab_idx, mode_info, timer_pending, last,
          self_tab_line, frame>>

(* ------------------------------ inputs -------------------------------- *)

\* Largest column count handed to tab_line.
MaxCols == 44

\* Width of the session name.
SessionNameWidth == 3

\* Length of the swap layout's name.
SwapLayoutNameLen == 4

\* Input modes with a short, a middling and a long name.
Modes == {"Tab", "Locked", "RenameTab"}

\* Widths of " {load1} {load5} {load15} " for loads below and from 10.
LoadsWidths == {16, 17}

\* Tab widths and far counts of the calls of tab_line.
LineTabWidths == {3}

LineFarCounts == {0, 9}

NearSeqs(widths) == UNION {[1..k -> widths] : k \in 0..MaxNear}

\* The vectors of tabs starting at index lo, with near tabs of `widths`
\* and one of `fars` tabs beyond them.
TabVecs(lo, widths, fars) ==
    {[lo |-> lo, n |-> Len(near) + far, near |-> near] :
        near \in NearSeqs(widths), far \in fars}

\* all_tabs split around the active tab, as lines 259-265 split it at
\* active_tab_index, the number of tabs before the active one.
SplitTabs(widths, fars) ==
    UNION {{[before |-> b, active |-> TabPart(w, b.n), after |-> a] :
               w \in widths, a \in TabVecs(b.n + 1, widths, fars)} :
           b \in TabVecs(0, widths, fars)}

\* The calls of populate_tabs_in_tab_line as tab_line makes them:
\* tabs_to_render is [active] and the active tab fits in cols.
FitCalls ==
    {f \in [tabs : SplitTabs(TabWidths, FarCounts), cols : 0..MaxBudget,
            separator : {tab_separator(af) : af \in BOOLEAN}] :
        f.tabs.active.len <= f.cols}

NoFitCall(t) == [tabs |-> t, cols |-> 0, separator |-> 0]

\* The arguments of tab_line.
LineCalls ==
    {a \in [session_name : {None, Some(SessionNameWidth)},
            tabs : SplitTabs(LineTabWidths, LineFarCounts),
            cols : 0..MaxCols,
            arrow_fonts : BOOLEAN,
            hide_session_name : BOOLEAN,
            mode : Modes,
            active_swap_layout_name : {None, Some(SwapLayoutNameLen)}] :
        a.hide_session_name => a.session_name.some}

NoLineCall(t) ==
    [session_name |-> None, tabs |-> t, cols |-> 0, arrow_fonts |-> FALSE,
     hide_session_name |-> FALSE, mode |-> "Normal", active_swap_layout_name |-> None]

NotReturned == [parts |-> <<>>, panic |-> FALSE]

\* A tab list for the variables of a function that is not under call.
IdleTabs == CHOOSE t \in SplitTabs(LineTabWidths, LineFarCounts) : t.before.n = 0 /\ t.after.n = 0

\* Longest tab list a TabUpdate carries.
MaxTabs == 3

\* The tab lists of a TabUpdate: any number of tabs, any of them active.
TabLists == UNION {[1..k -> [active : BOOLEAN]] : k \in 0..MaxTabs}

\* What a call of update asked of the host: the tab given to switch_tab_to
\* (None when it was not called), whether set_timeout was called, and the
\* value returned (should_render).  `tabs` is the list a TabUpdate carried.
Asked(event, switch, timeout, render) ==
    [event |-> event, tabs |-> <<>>, switch_tab_to |-> switch, set_timeout |-> timeout,
     should_render |-> render]

\* The same for Event::TabUpdate(new_tabs).
AskedOfTabUpdate(new_tabs, render) ==
    [Asked("TabUpdate", None, FALSE, render) EXCEPT !.tabs = new_tabs]

NoCallYet == Asked("none", None, FALSE, FALSE)

\* What a call of render did: whether it found State.tabs empty (line 130),
\* whether it reached a print! of lines 178-185, whether it panicked.
Frame(tabs_is_empty, printed, panicked) ==
    [called |-> TRUE, tabs_is_empty |-> tabs_is_empty, printed |-> printed,
     panicked |-> panicked]

NoFrameYet == [called |-> FALSE, tabs_is_empty |-> FALSE, printed |-> FALSE,
               panicked |-> FALSE]

\* State::default()
StateDefault ==
    /\ got_permissions = FALSE
    /\ tabs = <<>>
    /\ active_tab_idx = 0
    /\ mode_info = "Normal"
    /\ timer_pending = FALSE
    /\ last = NoCallYet
    /\ self_tab_line = <<>>
    /\ frame = NoFrameYet

(* ------------------------------- Init --------------------------------- *)

InitFit ==
    /\ entry = "populate_tabs_in_tab_line"
    /\ pc = "populate"
    /\ fit_in \in FitCalls
    /\ loop = LoopEntry(fit_in.tabs.before, fit_in.tabs.after, <<fit_in.tabs.active>>)
    /\ line_in = NoLineCall(fit_in.tabs)
    /\ line_out = NotReturned
    /\ StateDefault

InitLine ==
    /\ entry = "tab_line"
    /\ pc = "tab_line"
    /\ line_in \in LineCalls
    /\ line_out = NotReturned
    /\ fit_in = NoFitCall(line_in.tabs)
    /\ loop = LoopEntry(fit_in.tabs.before, fit_in.tabs.after, <<fit_in.tabs.active>>)
    /\ StateDefault

InitPlugin ==
    /\ entry = "plugin"
    /\ pc = "new"
    /\ line_in = NoLineCall(IdleTabs)
    /\ line_out = NotReturned
    /\ fit_in = NoFitCall(IdleTabs)
    /\ loop = LoopEntry(IdleTabs.before, IdleTabs.after, <<IdleTabs.active>>)
    /\ StateDefault

Init == InitFit \/ InitLine \/ InitPlugin

(* ------------------- the fitting loop, turn by turn ------------------- *)

Running == pc = "populate" /\ loop.at = "loop"

\* line 53: the indicators and the tabs placed so far exceed cols.
FitBreak ==
    /\ Running
    /\ BreakNow(loop, fit_in.cols, fit_in.separator)
    /\ loop' = LoopTurn(loop, fit_in.cols, fit_in.separator)
    /\ UNCHANGED <<entry, pc, line_in, line_out, fit_in, pluginVars>>

\* line 91: the next tab before the active one is added.
FitAddLeft ==
    /\ Running
    /\ ~BreakNow(loop, fit_in.cols, fit_in.separator)
    /\ TakeLeft(loop, fit_in.cols, fit_in.separator)
    /\ loop' = LoopTurn(loop, fit_in.cols, fit_in.separator)
    /\ UNCHANGED <<entry, pc, line_in, line_out, fit_in, pluginVars>>

\* line 97: the next tab after the active one is added.
FitAddRight ==
    /\ Running
    /\ ~BreakNow(loop, fit_in.cols, fit_in.separator)
    /\ ~TakeLeft(loop, fit_in.cols, fit_in.separator)
    /\ right_fits(loop, fit_in.cols, fit_in.separator)
    /\ loop' = LoopTurn(loop, fit_in.cols, fit_in.separator)
    /\ UNCHANGED <<entry, pc, line_in, line_out, fit_in, pluginVars>>

\* line 103: nothing more fits; the indicators are inserted.
FitCollapse ==
    /\ Running
    /\ ~BreakNow(loop, fit_in.cols, fit_in.separator)
    /\ ~TakeLeft(loop, fit_in.cols, fit_in.separator)
    /\ ~right_fits(loop, fit_in.cols, fit_in.separator)
    /\ loop' = LoopTurn(loop, fit_in.cols, fit_in.separator)
    /\ UNCHANGED <<entry, pc, line_in, line_out, fit_in, pluginVars>>

(* ------------------------------ tab_line ------------------------------ *)

\* lines 259-275: the active tab does not fit; the prefix is returned.
LineReturnPrefix ==
    /\ pc = "tab_line"
    /\ ActiveWontFit(get_current_title_len(LinePrefixOf(line_in)),
                     line_in.tabs.active.len, line_in.cols)
    /\ line_out' = Returned(LinePrefixOf(line_in))
    /\ pc' = "ret"
    /\ UNCHANGED <<entry, line_in, fit_in, loop, pluginVars>>

\* lines 259-286: the fitting loop is entered with what the prefix leaves.
LineCallPopulate ==
    /\ pc = "tab_line"
    /\ ~ActiveWontFit(get_current_title_len(LinePrefixOf(line_in)),
                      line_in.tabs.active.len, line_in.cols)
    /\ fit_in' = FitCallOf(line_in)
    /\ loop' = LoopEntry(line_in.tabs.before, line_in.tabs.after, <<line_in.tabs.active>>)
    /\ pc' = "populate"
    /\ UNCHANGED <<entry, line_in, line_out, pluginVars>>

\* lines 287-337: the widgets and the padding, with the load text read now.
LinePackWidgets ==
    /\ entry = "tab_line"
    /\ pc = "populate"
    /\ loop.at # "loop"
    /\ \E loads_width \in LoadsWidths :
          line_out' = PackWidgets(LinePrefixOf(line_in) \o loop.tabs_to_render,
                                  line_in.cols, fit_in.separator, loads_width,
                                  line_in.active_swap_layout_name, line_in.mode)
    /\ pc' = "ret"
    /\ UNCHANGED <<entry, line_in, fit_in, loop, pluginVars>>

(* ------------------------------- plugin ------------------------------- *)

\* PositionActive taking the first tab of the list for the active one when
\* the list marks none.
PositionActive_FirstWhenNone(ts, i) ==
    IF ts = <<>> THEN None
    ELSE IF \E j \in 1..Len(ts) : ts[j].active
         THEN Some((CHOOSE j \in 1..Len(ts) : ts[j].active /\ \A h \in 1..(j - 1) : ~ts[h].active) - 1)
         ELSE Some(0)

\* tabs.iter().position(|t| t.active): the 0-based index of the first active
\* tab, None when there is none.
RECURSIVE PositionActive(_, _)
PositionActive(ts, i) ==
    IF i > Len(ts) THEN None
    ELSE IF ts[i].active THEN Some(i - 1)
    ELSE PositionActive(ts, i + 1)

Min(a, b) == IF a <= b THEN a ELSE b

Max(a, b) == IF a >= b THEN a ELSE b

\* The tab a ScrollUp and a ScrollDown switch to (lines 111 and 114).
ScrollUpTarget(idx, tab_count) == Min(idx + 1, tab_count)

ScrollDownTarget(idx) == Max(saturating_sub(idx, 1), 1)

\* load: the permissions are requested and the first timeout is set.
Load ==
    /\ entry = "plugin"
    /\ pc = "new"
    /\ pc' = "loaded"
    /\ got_permissions' = FALSE
    /\ timer_pending' = TRUE
    /\ UNCHANGED <<entry, lineVars, renderVars, tabs, active_tab_idx, mode_info, last>>

Loaded == entry = "plugin" /\ pc = "loaded"

\* lines 70-81: until the permissions are granted only their grant is handled.
UpdatePermissionGranted ==
    /\ Loaded
    /\ got_permissions' = TRUE
    /\ last' = Asked("PermissionRequestResult", None, FALSE, ~got_permissions)
    /\ UNCHANGED <<entry, pc, lineVars, renderVars, tabs, active_tab_idx, mode_info, timer_pending>>

\* Any other event than a Timer while the permissions are not granted.
UpdateIgnored ==
    /\ Loaded
    /\ ~got_permissions
    /\ \/ \E event \in {"ModeUpdate", "ScrollUp", "ScrollDown", "LeftClick", "Denied"} :
             last' = Asked(event, None, FALSE, FALSE)
       \/ \E new_tabs \in TabLists : last' = AskedOfTabUpdate(new_tabs, FALSE)
    /\ UNCHANGED <<entry, pc, lineVars, renderVars, got_permissions, tabs, active_tab_idx,
                   mode_info, timer_pending>>

\* lines 84-89
UpdateModeUpdate ==
    /\ Loaded
    /\ got_permissions
    /\ \E new_mode \in {"Normal", "Locked"} :
          /\ last' = Asked("ModeUpdate", None, FALSE, mode_info # new_mode)
          /\ mode_info' = new_mode
    /\ UNCHANGED <<entry, pc, lineVars, renderVars, got_permissions, tabs, active_tab_idx, timer_pending>>

\* lines 90-102
UpdateTabUpdate ==
    /\ Loaded
    /\ got_permissions
    /\ \E new_tabs \in TabLists :
          LET active_tab_index == PositionActive(new_tabs, 1)
          IN  IF active_tab_index.some
              THEN /\ last' = AskedOfTabUpdate(new_tabs,
                                    active_tab_idx # active_tab_index.v + 1 \/ tabs # new_tabs)
                   /\ active_tab_idx' = active_tab_index.v + 1
                   /\ tabs' = new_tabs
              ELSE /\ last' = AskedOfTabUpdate(new_tabs, FALSE)
                   /\ UNCHANGED <<tabs, active_tab_idx>>
    /\ UNCHANGED <<entry, pc, lineVars, renderVars, got_permissions, mode_info, timer_pending>>

\* lines 110-112
UpdateScrollUp ==
    /\ Loaded
    /\ got_permissions
    /\ last' = Asked("ScrollUp", Some(ScrollUpTarget(active_tab_idx, Len(tabs))), FALSE, FALSE)
    /\ UNCHANGED <<entry, pc, lineVars, renderVars, got_permissions, tabs, active_tab_idx,
                   mode_info, timer_pending>>

\* lines 113-115
UpdateScrollDown ==
    /\ Loaded
    /\ got_permissions
    /\ last' = Asked("ScrollDown", Some(ScrollDownTarget(active_tab_idx)), FALSE, FALSE)
    /\ UNCHANGED <<entry, pc, lineVars, renderVars, got_permissions, tabs, active_tab_idx,
                   mode_info, timer_pending>>

\* The part of the rendered line that covers column col, walking the parts
\* from column `offset` on: None beyond the last part.
RECURSIVE get_clicked_line_part(_, _, _)
get_clicked_line_part(parts, offset, col) ==
    IF parts = <<>> THEN None
    ELSE IF col >= offset /\ col < offset + Head(parts).len THEN Some(Head(parts))
    ELSE get_clicked_line_part(Tail(parts), offset + Head(parts).len, col)

\* The tab a click at column col selects: the tab_index of the part under
\* the column, None for a part that has none and beyond the line.
get_tab_to_focus(parts, col) ==
    LET clicked == get_clicked_line_part(parts, 0, col)
    IN  IF clicked.some THEN clicked.v.tab_index ELSE None

\* Columns of the clicks.
ClickCols == {0, 9, MaxCols}

\* lines 104-109
UpdateLeftClick ==
    /\ Loaded
    /\ got_permissions
    /\ \E col \in ClickCols :
          last' = Asked("LeftClick", get_tab_to_focus(self_tab_line, col), FALSE, FALSE)
    /\ UNCHANGED <<entry, pc, lineVars, renderVars, got_permissions, tabs, active_tab_idx,
                   mode_info, timer_pending>>

\* lines 116 and 122-124: any other mouse event and any event update does
\* not know; a PermissionRequestResult that grants nothing is one of them.
UpdateOther ==
    /\ Loaded
    /\ got_permissions
    /\ \E event \in {"Mouse", "Denied", "Other"} : last' = Asked(event, None, FALSE, FALSE)
    /\ UNCHANGED <<entry, pc, lineVars, renderVars, got_permissions, tabs, active_tab_idx,
                   mode_info, timer_pending>>

\* lines 118-121, and line 79 when the permissions are not granted yet:
\* the pending timeout fires.
UpdateTimer ==
    /\ Loaded
    /\ timer_pending
    /\ IF got_permissions
       THEN /\ last' = Asked("Timer", None, TRUE, TRUE)
            /\ timer_pending' = TRUE
       ELSE /\ last' = Asked("Timer", None, FALSE, FALSE)
            /\ timer_pending' = FALSE
    /\ UNCHANGED <<entry, pc, lineVars, renderVars, got_permissions, tabs, active_tab_idx, mode_info>>

\* The index render hands to tab_line (lines 135-150): the position of the
\* last active tab of State.tabs, 0 when none is active.  TabInfo.position
\* is the tab's place in the list, counted from 0.
render_active_tab_index(ts) ==
    LET actives == {i \in 1..Len(ts) : ts[i].active}
    IN  IF actives = {} THEN 0
        ELSE (CHOOSE i \in actives : \A j \in actives : j <= i) - 1

\* Column counts the host renders with: no room, room for some tabs, room
\* for all tabs and the widgets.
RenderCols == {0, 12, MaxCols}

\* The call of tab_line render makes (lines 161-172).  all_tabs holds one
\* tab_style segment per tab, FarWidth wide; mode_info carries no session
\* name, and its capabilities are the part of it the model does not store.
RenderLineCall(ts, mode, cols, arrow_fonts) ==
    LET k == render_active_tab_index(ts)
    IN  [session_name |-> None,
         tabs |-> [before |-> [lo |-> 0, n |-> k, near |-> <<>>],
                   active |-> TabPart(FarWidth, k),
                   after |-> [lo |-> k + 1, n |-> Len(ts) - k - 1, near |-> <<>>]],
         cols |-> cols,
         arrow_fonts |-> arrow_fonts,
         hide_session_name |-> FALSE,
         mode |-> mode,
         active_swap_layout_name |-> None]

\* render (lines 129-186): nothing is done while State.tabs is empty;
\* otherwise tab_line is called, its result is stored in State.tab_line and
\* printed.  A panic of tab_line ends the plugin.
Render ==
    /\ Loaded
    /\ IF tabs = <<>>
       THEN /\ frame' = Frame(TRUE, FALSE, FALSE)
            /\ UNCHANGED <<pc, self_tab_line>>
       ELSE \E cols \in RenderCols, arrow_fonts \in BOOLEAN, loads_width \in LoadsWidths :
               LET line == tab_line(RenderLineCall(tabs, mode_info, cols, arrow_fonts),
                                    loads_width)
               IN  IF line.panic
                   THEN /\ frame' = Frame(FALSE, FALSE, TRUE)
                        /\ pc' = "panicked"
                        /\ UNCHANGED self_tab_line
                   ELSE /\ frame' = Frame(FALSE, TRUE, FALSE)
                        /\ self_tab_line' = line.parts
                        /\ UNCHANGED pc
    /\ UNCHANGED <<entry, lineVars, got_permissions, tabs, active_tab_idx, mode_info,
                   timer_pending, last>>

Next ==
    \/ FitBreak
    \/ FitAddLeft
    \/ FitAddRight
    \/ FitCollapse
    \/ LineReturnPrefix
    \/ LineCallPopulate
    \/ LinePackWidgets
    \/ Load
    \/ UpdatePermissionGranted
    \/ UpdateIgnored
    \/ UpdateModeUpdate
    \/ UpdateTabUpdate
    \/ UpdateScrollUp
    \/ UpdateScrollDown
    \/ UpdateLeftClick
    \/ UpdateOther
    \/ UpdateTimer
    \/ Render

Spec == Init /\ [][Next]_vars


(* ============================== claims ================================ *)

\* populate_tabs_in_tab_line has been called (and may have returned).
FitCalled == pc = "populate" \/ loop.at # "loop"

\* populate_tabs_in_tab_line has returned.
FitReturned == loop.at # "loop"

LineReturned == entry = "tab_line" /\ pc = "ret"

HiddenBefore == VecLen(loop.tabs_before_active)

HiddenAfter == VecLen(loop.tabs_after_active)

IsTab(p) == p.part.text = "tab"

IsMore(p) == p.part.text \in {"left_more", "left_more_many", "right_more", "right_more_many"}

\* The tabs among tabs_to_render.
RenderedTabs == SelectSeq(loop.tabs_to_render, IsTab)

AdmittedBefore ==
    Cardinality({i \in 1..Len(RenderedTabs) :
                    RenderedTabs[i].tab_index.v < fit_in.tabs.active.tab_index.v})

AdmittedAfter ==
    Cardinality({i \in 1..Len(RenderedTabs) :
                    RenderedTabs[i].tab_index.v > fit_in.tabs.active.tab_index.v})

HasText(parts, t) == \E i \in 1..Len(parts) : parts[i].part.text = t

CountTabs(parts) == Len(SelectSeq(parts, IsTab))

(* ---------------------------------------------------------------------- *)
(* C1: for every input of tab_line the widths of the returned parts sum   *)
(* to exactly cols; in particular the sum never exceeds cols, also on the *)
(* early return of the prefix and when the session name and the mode      *)
(* badge each fit in cols but not together.  Stated here by the bound the *)
(* claim gives: the sum of len never exceeds cols.                        *)
(* ---------------------------------------------------------------------- *)
C1_WidthNeverExceedsCols ==
    LineReturned => SumLen(line_out.parts) <= line_in.cols

(* ---------------------------------------------------------------------- *)
(* C2: in every call of populate_tabs_in_tab_line that starts with        *)
(* [active] and active.len <= cols, middle_size <= cols at the start of   *)
(* every turn of the loop, the indicators and the tabs still fit in cols  *)
(* after every admitted tab, the list left in tabs_to_render is at most   *)
(* cols wide, and cols - current_title_len in tab_line does not underflow.*)
(* ---------------------------------------------------------------------- *)
C2_FitStaysWithinCols ==
    /\ FitCalled => loop.middle_size <= fit_in.cols
    /\ (pc = "populate" /\ loop.at = "loop" /\ Len(loop.tabs_to_render) > 1)
           => total_size(loop, fit_in.separator) <= fit_in.cols
    /\ FitReturned => get_current_title_len(loop.tabs_to_render) <= fit_in.cols
    /\ ~line_out.panic

\* C2 witness: both sides got a tab, tabs stay hidden on both sides, and the
\* row is full.
C2_Witness ==
    /\ entry = "populate_tabs_in_tab_line"
    /\ loop.at = "end"
    /\ AdmittedBefore >= 1 /\ AdmittedAfter >= 1
    /\ HiddenBefore >= 1 /\ HiddenAfter >= 1
    /\ get_current_title_len(loop.tabs_to_render) = fit_in.cols

PrefixTexts == {"prefix", "session", "mode"}

IsPrefixPart(p) == p.part.text \in PrefixTexts

(* ---------------------------------------------------------------------- *)
(* C3: the result of tab_line holds the active tab's segment exactly when *)
(* prefix_len + active.len <= cols, prefix_len being the width of the     *)
(* prefix parts in the result; otherwise the result is the prefix alone:  *)
(* no tab, no indicator, no widget, no padding.                           *)
(* ---------------------------------------------------------------------- *)
C3_ActiveShownIffItFits ==
    LineReturned =>
        LET parts == line_out.parts
            prefix_len == SumLen(SelectSeq(parts, IsPrefixPart))
            shown == \E i \in 1..Len(parts) : parts[i] = line_in.tabs.active
        IN  /\ shown <=> prefix_len + line_in.tabs.active.len <= line_in.cols
            /\ ~shown => \A i \in 1..Len(parts) : IsPrefixPart(parts[i])

\* C3 witness: the prefix, with the session name and the mode badge, is all
\* that is returned.
C3_Witness ==
    /\ LineReturned
    /\ HasText(line_out.parts, "session")
    /\ HasText(line_out.parts, "mode")
    /\ \A i \in 1..Len(line_out.parts) : IsPrefixPart(line_out.parts[i])

\* The part p is an indicator of the given kind that displays the count k.
ShowsCount(p, kind, k) ==
    IF k < ManyFrom
    THEN p.part.text = kind /\ p.part.n = k
    ELSE p.part.text = kind \o "_many"

\* Each side with unrendered tabs has its indicator at its end of the list,
\* displaying their number.
IndicatorsShowHidden ==
    /\ HiddenBefore >= 1 => ShowsCount(Head(loop.tabs_to_render), "left_more", HiddenBefore)
    /\ HiddenAfter >= 1 =>
           ShowsCount(loop.tabs_to_render[Len(loop.tabs_to_render)], "right_more", HiddenAfter)

(* ---------------------------------------------------------------------- *)
(* C4: on every exit of the fitting loop, if k >= 1 tabs before the       *)
(* active tab are not rendered, a left indicator is present and shows     *)
(* exactly k ("many" from 10000), and likewise on the right.              *)
(* ---------------------------------------------------------------------- *)
C4_IndicatorsOnEveryExit == FitReturned => IndicatorsShowHidden

\* C4 as amended: on the exit of line 107 (neither side fits), each side
\* with k >= 1 unrendered tabs has its indicator, showing exactly k ("many"
\* from 10000); the exit of line 55, taken when the indicators do not fit
\* beside the tabs, inserts no indicator at all.
C4_IndicatorsWhenTheyFit ==
    /\ loop.at = "end" => IndicatorsShowHidden
    /\ loop.at = "break" => \A i \in 1..Len(loop.tabs_to_render) : ~IsMore(loop.tabs_to_render[i])

\* C4 witness: a tab was admitted; "many" is shown on the left and a number
\* on the right.
C4_Witness ==
    /\ loop.at = "end"
    /\ HiddenBefore >= ManyFrom
    /\ HiddenAfter >= 1 /\ HiddenAfter < ManyFrom
    /\ Len(RenderedTabs) >= 2

(* ---------------------------------------------------------------------- *)
(* C5: when one tab lies on each side of the active tab and the three     *)
(* tabs together fit in the budget, the loop renders all three and no     *)
(* indicator (budget 10, three tabs of 3 columns: total width 9).         *)
(* ---------------------------------------------------------------------- *)
C5_OneTabEachSideAdmitted ==
    ( /\ FitReturned
      /\ fit_in.tabs.before.n = 1 /\ fit_in.tabs.after.n = 1
      /\ VecLast(fit_in.tabs.before).len + fit_in.tabs.active.len
             + VecFirst(fit_in.tabs.after).len <= fit_in.cols )
    => /\ Len(RenderedTabs) = 3
       /\ \A i \in 1..Len(loop.tabs_to_render) : ~IsMore(loop.tabs_to_render[i])

(* ---------------------------------------------------------------------- *)
(* C6: with all other inputs of tab_line the same, a larger cols never    *)
(* yields fewer tab segments in the result.                               *)
(* ---------------------------------------------------------------------- *)
C6_MoreColsNeverFewerTabs ==
    LineReturned =>
        \A c2 \in (line_in.cols + 1)..MaxCols : \A loads_width \in LoadsWidths :
            CountTabs(tab_line([line_in EXCEPT !.cols = c2], loads_width).parts)
                >= CountTabs(line_out.parts)

(* ---------------------------------------------------------------------- *)
(* C7: the result of tab_line never holds the load widget without the     *)
(* clock.                                                                 *)
(* ---------------------------------------------------------------------- *)
C7_NoLoadWithoutClock ==
    LineReturned => (HasText(line_out.parts, "load") => HasText(line_out.parts, "time"))

\* All tabs of the call have the width of the active tab.
SameWidths ==
    LET t == fit_in.tabs
        w == t.active.len
        AllNear(v) == \A i \in 1..Len(v.near) : v.near[i] = w
        AllFar(v) == v.n > Len(v.near) => FarWidth = w
    IN  AllNear(t.before) /\ AllFar(t.before) /\ AllNear(t.after) /\ AllFar(t.after)

Balanced ==
    AdmittedBefore - AdmittedAfter \in {-1, 0, 1}

EvenlyAdmitted ==
    /\ entry # "plugin"
    /\ FitReturned
    /\ SameWidths
    /\ (AdmittedBefore + AdmittedAfter) % 2 = 0

\* The side that got fewer tabs still has a tab to give: the difference is
\* not for want of tabs.
LighterSideHasTabs ==
    /\ AdmittedBefore < AdmittedAfter => HiddenBefore >= 1
    /\ AdmittedAfter < AdmittedBefore => HiddenAfter >= 1

(* ---------------------------------------------------------------------- *)
(* C8: when all tabs have the same width and the loop admits an even      *)
(* number of tabs besides the active one, the numbers admitted before and *)
(* after the active tab differ by at most one.  Read in the claim's       *)
(* favour: a side with no tab left to give is not held against it.        *)
(* ---------------------------------------------------------------------- *)
C8_CenteredWhenSymmetric == (EvenlyAdmitted /\ LighterSideHasTabs) => Balanced

\* C8 as amended: the same, provided neither side has run out of tabs when
\* the loop stops (each side still has a tab that is not rendered).
C8_CenteredWhileBothSidesLast ==
    (EvenlyAdmitted /\ HiddenBefore >= 1 /\ HiddenAfter >= 1) => Balanced

\* C8 witness: one tab admitted on each side, more hidden on each side.
C8_Witness ==
    /\ EvenlyAdmitted
    /\ HiddenBefore >= 1 /\ HiddenAfter >= 1
    /\ AdmittedBefore = 1 /\ AdmittedAfter = 1

(* ---------------------------------------------------------------------- *)
(* C9: an inserted left indicator carries the index of the tab just left  *)
(* of the leftmost rendered tab (hidden_before - 1), an inserted right    *)
(* indicator the index of the tab just right of the rightmost rendered    *)
(* tab (hidden_before + number of rendered tabs).                         *)
(* ---------------------------------------------------------------------- *)
C9_IndicatorsNameAdjacentTab ==
    loop.at = "end" =>
        LET r == loop.tabs_to_render
            shown == RenderedTabs
        IN  /\ HiddenBefore >= 1 =>
                  /\ Head(r).tab_index = Some(HiddenBefore - 1)
                  /\ Head(r).tab_index.v + 1 = Head(shown).tab_index.v
            /\ HiddenAfter >= 1 =>
                  /\ r[Len(r)].tab_index = Some(HiddenBefore + Len(shown))
                  /\ r[Len(r)].tab_index.v = shown[Len(shown)].tab_index.v + 1

\* C9 witness: both indicators inserted around at least three rendered tabs.
C9_Witness ==
    /\ loop.at = "end"
    /\ HiddenBefore >= 1 /\ HiddenAfter >= 1
    /\ Len(RenderedTabs) >= 3

(* ---------------------------------------------------------------------- *)
(* C10: once the permissions are granted, every ScrollUp asks for tab     *)
(* min(active + 1, tab_count), every ScrollDown for max(active - 1, 1),   *)
(* and the tab asked for is within 1 .. tab_count, also before any        *)
(* TabUpdate was accepted.                                                *)
(* ---------------------------------------------------------------------- *)
C10_ScrollStaysWithinTabs ==
    (got_permissions /\ last.event \in {"ScrollUp", "ScrollDown"}) =>
        /\ last.switch_tab_to.some
        /\ last.event = "ScrollUp" =>
               last.switch_tab_to.v = Min(active_tab_idx + 1, Len(tabs))
        /\ last.event = "ScrollDown" =>
               last.switch_tab_to.v = Max(active_tab_idx - 1, 1)
        /\ last.switch_tab_to.v \in 1..Len(tabs)

\* The list of the TabUpdate last handled marks no tab as active.
NoActiveTabIn(ts) == \A j \in 1..Len(ts) : ~ts[j].active

\* While no tab is stored nothing was printed and State.tab_line is empty;
\* the active tab's index is a place of the stored list.
NothingFromNoTabs ==
    /\ tabs = <<>> => (~frame.printed /\ ~frame.panicked /\ self_tab_line = <<>>)
    /\ (frame.called /\ frame.tabs_is_empty) => (~frame.printed /\ ~frame.panicked)
    /\ tabs # <<>> => (1 <= active_tab_idx /\ active_tab_idx <= Len(tabs))

\* A step that handles a TabUpdate whose list marks no tab as active keeps
\* State.tabs and State.active_tab_idx and returns should_render = false.
TabUpdateWithoutActiveIsDropped ==
    (last' # last /\ last'.event = "TabUpdate" /\ NoActiveTabIn(last'.tabs)) =>
        /\ tabs' = tabs
        /\ active_tab_idx' = active_tab_idx
        /\ ~last'.should_render

(* ---------------------------------------------------------------------- *)
(* C11: a TabUpdate whose list contains no active tab (the empty list     *)
(* included) leaves the stored tabs and active_tab_idx unchanged and      *)
(* requests no render; render emits nothing while the stored tab list is  *)
(* empty; and whenever the stored tab list is not empty,                  *)
(* 1 <= active_tab_idx <= number of stored tabs.                          *)
(* ---------------------------------------------------------------------- *)
C11_NoActiveTabNothingRendered ==
    /\ []NothingFromNoTabs
    /\ [][TabUpdateWithoutActiveIsDropped]_vars

\* C11 witness: with tabs stored and a frame printed, a TabUpdate of a
\* non-empty list with no active tab was handled and dropped.
C11_Witness ==
    /\ got_permissions
    /\ last.event = "TabUpdate" /\ last.tabs # <<>> /\ NoActiveTabIn(last.tabs)
    /\ tabs # <<>> /\ tabs # last.tabs
    /\ frame.printed

(* ---------------------------------------------------------------------- *)
(* C12: the redraw timer never stops.  Once load has run a timeout is     *)
(* pending in every state (an update that handles a Timer is one step, so *)
(* "being handled" is not a state of its own), and every Timer event      *)
(* handled by update sets a new timeout and returns should_render = true, *)
(* also when it arrives before the permissions are granted.               *)
(* ---------------------------------------------------------------------- *)
C12_TimerNeverStops ==
    Loaded =>
        /\ timer_pending
        /\ last.event = "Timer" => (last.set_timeout /\ last.should_render)

=============================================================================
